---------------------------- MODULE Spec2Model ----------------------------
(***************************************************************************)
(* Model of the Telegram webhook handler of src/main.py.                   *)
(*                                                                         *)
(* The hosting runtime handles webhook requests concurrently: NReq of them  *)
(* in Spec and FairSpec, NConc of them in ConcSpec.                        *)
(* Each request runs the coroutine `webhook`; the steps of one request are *)
(* the pieces of that coroutine between its suspension points and its      *)
(* outbound calls.  The messaging platform, the completion API and the     *)
(* inbound request bodies are the environment: their outcomes are chosen   *)
(* nondeterministically from the tuples Bodies, ApiOutcomes, PostOutcomes. *)
(*                                                                         *)
(* Encoding.  A JSON / Python value is a record [t |-> tag, v |-> payload].*)
(* A Python str is a sequence of pieces; input strings are spelled one     *)
(* character per piece, the long literals of the source are one piece      *)
(* each (the source's Russian literals are glossed in ASCII).              *)
(***************************************************************************)
EXTENDS Integers, Sequences, FiniteSets, TLC

\* the requests that arrive in Spec and FairSpec
NReq == 1
Req == 1..NReq
\* the requests that arrive in ConcSpec
NConc == 2
ConcReq == 1..NConc
\* every request of the model
AllReq == Req \cup ConcReq

(* ------------------------- JSON / Python values ------------------------ *)
JNull == [t |-> "null", v |-> 0]
JBool(b) == [t |-> "bool", v |-> b]
JNum(n) == [t |-> "num", v |-> n]
JStr(s) == [t |-> "str", v |-> s]
JList(xs) == [t |-> "list", v |-> xs]
JObj(f) == [t |-> "obj", v |-> f]
EmptyDict == JObj(<<>>)

\* Python's type name of a JSON value, as it appears in exception messages.
TypeName(x) ==
  CASE x.t = "null" -> "NoneType"
    [] x.t = "bool" -> "bool"
    [] x.t = "num" -> "int"
    [] x.t = "str" -> "str"
    [] x.t = "list" -> "list"
    [] OTHER -> "dict"

\* Python's == between JSON values (only ever used against a str here).
PyEq(a, b) == a.t = b.t /\ a.v = b.v

\* Python's truth value: None, False, 0, "", [] and {} are falsy.
Truthy(x) ==
  CASE x.t = "null" -> FALSE
    [] x.t = "bool" -> x.v
    [] x.t = "num" -> x.v # 0
    [] x.t = "str" -> Len(x.v) > 0
    [] x.t = "list" -> Len(x.v) > 0
    [] OTHER -> DOMAIN x.v # {}

\* whitespace pieces removed by str.strip()
Whitespace == {" ", "\n", "\t"}

RECURSIVE LStrip(_)
LStrip(s) ==
  IF s # <<>> /\ Head(s) \in Whitespace THEN LStrip(Tail(s)) ELSE s

RECURSIVE RStrip(_)
RStrip(s) ==
  IF s # <<>> /\ s[Len(s)] \in Whitespace
  THEN RStrip(SubSeq(s, 1, Len(s) - 1)) ELSE s

\* str.strip()
Strip(s) == RStrip(LStrip(s))

\* s.startswith(p)
StartsWith(s, p) == Len(p) <= Len(s) /\ SubSeq(s, 1, Len(p)) = p

\* `sub in s` for two str
IsSubstring(sub, s) ==
  \E i \in 0..(Len(s) - Len(sub)) : SubSeq(s, i + 1, i + Len(sub)) = sub

(* ------------------------------ exceptions ----------------------------- *)
NoExc == [type |-> "None", msg |-> <<>>]
Exc(type, msg) == [type |-> type, msg |-> msg]

\* str(e): a KeyError prints the repr of its key, the others their message.
ExcStr(e) ==
  IF e.type = "KeyError" THEN <<"'">> \o e.msg \o <<"'">> ELSE e.msg

Return(x) == [raised |-> FALSE, val |-> x, exc |-> NoExc]
Raise(e) == [raised |-> TRUE, val |-> JNull, exc |-> e]

(* --------------------------- program literals -------------------------- *)
MESSAGE_KEY == "message"
MESSAGE_STR == <<"m", "e", "s", "s", "a", "g", "e">>
START == <<"/", "s", "t", "a", "r", "t">>
\* "Привет! Я бот, работающий с ChatGPT.\nОтправь мне любое сообщение, ..."
welcome_message ==
  <<"Hello! I am a bot working with ChatGPT.\n",
    "Send me any message and I will answer with OpenAI.">>
\* "Пожалуйста, отправьте текстовое сообщение."
PROMPT == <<"Please send a text message.">>
\* "Ошибка при обращении к OpenAI: "
ERROR_PREFIX == <<"Error while calling OpenAI: ">>

HTTP_OK == 200
HTTP_ERROR == 500

(* ------------------------ Python container access ---------------------- *)
\* `"message" in x`
Contains(x) ==
  CASE x.t = "obj" -> Return(JBool(MESSAGE_KEY \in DOMAIN x.v))
    [] x.t = "list" ->
         Return(JBool(\E i \in 1..Len(x.v) : PyEq(x.v[i], JStr(MESSAGE_STR))))
    [] x.t = "str" -> Return(JBool(IsSubstring(MESSAGE_STR, x.v)))
    [] OTHER ->
         Raise(Exc("TypeError",
                   <<"argument of type '", TypeName(x), "' is not iterable">>))

\* x[key] for a str key
GetItem(x, key) ==
  CASE x.t = "obj" ->
         IF key \in DOMAIN x.v THEN Return(x.v[key])
         ELSE Raise(Exc("KeyError", <<key>>))
    [] x.t = "list" ->
         Raise(Exc("TypeError",
                   <<"list indices must be integers or slices, not str">>))
    [] x.t = "str" ->
         Raise(Exc("TypeError", <<"string indices must be integers">>))
    [] OTHER ->
         Raise(Exc("TypeError",
                   <<"'", TypeName(x), "' object is not subscriptable">>))

\* d.get(key, default) of a dict
DictGet(d, key, default) == IF key \in DOMAIN d.v THEN d.v[key] ELSE default


(* ------------------------------ environment ---------------------------- *)
\* {"message": {"chat": {"id": id}}}
MsgNoText(id) == JObj(MESSAGE_KEY :> JObj("chat" :> JObj("id" :> JNum(id))))
\* {"message": {"chat": {"id": id}, "text": txt}}
Msg(id, txt) ==
  JObj(MESSAGE_KEY :> JObj(("chat" :> JObj("id" :> JNum(id))) @@ ("text" :> txt)))

Valid(j) == [valid |-> TRUE, json |-> j]
\* a request body that is not JSON: request.json() raises on it
NotJson == [valid |-> FALSE, json |-> JNull]

\* The inbound request bodies the model draws from.
Bodies ==
  << NotJson,
     Valid(JNull),
     Valid(JList(<<>>)),
     Valid(JList(<<JStr(MESSAGE_STR)>>)),
     Valid(JStr(<<"a", " ">> \o MESSAGE_STR)),
     Valid(JNum(0)),
     Valid(EmptyDict),
     Valid(JObj("edited_message" :> EmptyDict)),
     Valid(JObj(MESSAGE_KEY :> JNull)),
     Valid(JObj(MESSAGE_KEY :> EmptyDict)),
     Valid(JObj(MESSAGE_KEY :> JObj("text" :> JStr(<<"h", "i">>)))),
     Valid(JObj(MESSAGE_KEY :> JObj("chat" :> EmptyDict))),
     Valid(JObj(MESSAGE_KEY :> JObj("chat" :> JNum(7)))),
     Valid(Msg(42, JStr(START))),
     Valid(MsgNoText(7)),
     Valid(Msg(7, JNull)),
     Valid(Msg(42, JStr(<<>>))),
     Valid(Msg(7, JStr(<<"h", "i">>))),
     Valid(Msg(42, JStr(START \o <<" ">>))) >>

\* What openai.ChatCompletion.create does: raises, or returns a response whose
\* choices[0].message.content is `content` (None in a malformed response).
ApiOutcomes ==
  << Raise(Exc("APIConnectionError", <<"Error communicating with OpenAI">>)),
     Return(JNull),
     Return(JStr(<<" ", "y", "o", "\n">>)) >>

\* What client.post does: raises, or returns a response with a status code
\* and a body that is JSON or is not.
PostOutcomes ==
  << Raise(Exc("ConnectError", <<"All connection attempts failed">>)),
     Return([status_code |-> 400, is_json |-> TRUE]),
     Return([status_code |-> 200, is_json |-> FALSE]),
     Return([status_code |-> 200, is_json |-> TRUE]) >>

\* no call of the completion API was made
NotCalled == Return(JStr(<<>>))

NoResponse == [status_code |-> 0, is_json |-> FALSE]

(* --------------------------------- state ------------------------------- *)
VARIABLES
  pc,           \* position of each request in webhook
  body,         \* the request body of each request
  data,         \* webhook's local `data`
  chat_id,      \* webhook's local `chat_id`
  text,         \* webhook's local `text`
  api,          \* what openai.ChatCompletion.create did for each request
  tg_response,  \* send_telegram_message's local `response`
  trace,        \* the outbound calls of each request, in order
  result,       \* the HTTP responses each request was answered with
  caught,       \* webhook's local `e`, the exception its except clause caught
  delivered     \* the chat messages the platform accepted from each request

vars ==
  <<pc, body, data, chat_id, text, api, tg_response, trace, result, caught,
    delivered>>

Last(t) == t[Len(t)]

\* an entry of trace: ev names the event, chat and text are its arguments
Event(ev, chat, txt) == [ev |-> ev, chat |-> chat, text |-> txt]

\* JSONResponse({"ok": True})
JSONResponseOk ==
  [status_code |-> HTTP_OK, content |-> JObj("ok" :> JBool(TRUE))]

\* variant: status_code=500 left out, the response keeps the default status
JSONResponseErrorDefaultStatus(e) ==
  [status_code |-> HTTP_OK,
   content |-> JObj(("ok" :> JBool(FALSE)) @@ ("error" :> JStr(ExcStr(e))))]

\* JSONResponse({"ok": False, "error": str(e)}, status_code=500)
JSONResponseError(e) ==
  [status_code |-> HTTP_ERROR,
   content |-> JObj(("ok" :> JBool(FALSE)) @@ ("error" :> JStr(ExcStr(e))))]

Init ==
  /\ pc = [r \in AllReq |-> "idle"]
  /\ body = [r \in AllReq |-> NotJson]
  /\ data = [r \in AllReq |-> JNull]
  /\ chat_id = [r \in AllReq |-> JNull]
  /\ text = [r \in AllReq |-> JNull]
  /\ api = [r \in AllReq |-> NotCalled]
  /\ tg_response = [r \in AllReq |-> NoResponse]
  /\ trace = [r \in AllReq |-> <<>>]
  /\ result = [r \in AllReq |-> <<>>]
  /\ caught = [r \in AllReq |-> NoExc]
  /\ delivered = [r \in AllReq |-> <<>>]


(* ------------------------------ the handler ---------------------------- *)
\* variant: text.startswith("/start")
IsStartPrefix(txt) == txt.t = "str" /\ StartsWith(txt.v, START)

\* variant: the command compared without its slash
IsStartNoSlash(txt) == PyEq(txt, JStr(Tail(START)))

\* text == "/start"
IsStart(txt) == PyEq(txt, JStr(START))

\* variant: text == "" (a null text is not caught)
IsEmptyStrOnly(txt) == PyEq(txt, JStr(<<>>))

\* not text
IsEmpty(txt) == ~Truthy(txt)

\* variant: no try/except around the call, whatever is raised propagates
get_openai_response_unguarded(txt, created) ==
  IF created.raised THEN Raise(created.exc)
  ELSE IF created.val.t # "str"
  THEN Raise(Exc("AttributeError",
                 <<"'", TypeName(created.val),
                   "' object has no attribute 'strip'">>))
  ELSE Return(JStr(Strip(created.val.v)))

\* get_openai_response(text) when openai.ChatCompletion.create does `api`:
\* the stripped content, or the error string for whatever was raised.
get_openai_response(txt, created) ==
  IF created.raised THEN Return(JStr(ERROR_PREFIX \o ExcStr(created.exc)))
  ELSE IF created.val.t # "str"
  THEN Return(JStr(ERROR_PREFIX
                     \o ExcStr(Exc("AttributeError",
                                   <<"'", TypeName(created.val),
                                     "' object has no attribute 'strip'">>))))
  ELSE Return(JStr(Strip(created.val.v)))

\* variant: raise_for_status() left out
RaisesForStatusNever(resp) == FALSE

\* response.raise_for_status() raises unless the status is a success status
RaisesForStatus(resp) == ~(200 <= resp.status_code /\ resp.status_code < 300)

\* variant: the chat id kept in a module-level global that a concurrent
\* request past its classification overwrites
SendCallShared(r, chat, txt) ==
  LET others == {q \in AllReq : q # r /\ pc[q] \in {"openai", "post"}}
  IN  Event("send_call",
            IF others = {} THEN chat ELSE chat_id[CHOOSE q \in others : TRUE],
            JStr(txt))

\* the payload of send_telegram_message(chat, txt)
SendCall(r, chat, txt) == Event("send_call", chat, JStr(txt))

\* variant: `except httpx.HTTPError`; any other exception leaves webhook and
\* the runtime answers with its plain-text 500
CatchHTTPOnly(r, e) ==
  /\ caught' = [caught EXCEPT ![r] = e]
  /\ result' = [result EXCEPT ![r] =
                  Append(@, IF e.type \in {"HTTPStatusError", "ConnectError"}
                            THEN JSONResponseError(e)
                            ELSE [status_code |-> HTTP_ERROR,
                                  content |-> JStr(<<"Internal Server Error">>)])]
  /\ pc' = [pc EXCEPT ![r] = "done"]

\* the except clause of webhook: answer 500 with the exception's message
Catch(r, e) ==
  /\ caught' = [caught EXCEPT ![r] = e]
  /\ result' = [result EXCEPT ![r] = Append(@, JSONResponseError(e))]
  /\ pc' = [pc EXCEPT ![r] = "done"]

\* return JSONResponse({"ok": True})
ReturnOk(r) ==
  /\ result' = [result EXCEPT ![r] = Append(@, JSONResponseOk)]
  /\ pc' = [pc EXCEPT ![r] = "done"]
  /\ UNCHANGED caught

\* await send_telegram_message(chat, txt), up to the suspension in client.post
StartSend(r, chat, txt) ==
  /\ trace' = [trace EXCEPT ![r] = Append(@, SendCall(r, chat, txt))]
  /\ pc' = [pc EXCEPT ![r] = "post"]
  /\ UNCHANGED <<result, caught>>

\* variant: the `return` after the welcome send is missing, so the handler
\* falls through to the completion branch
AfterSendFallThrough(r) ==
  IF IsStart(text[r]) /\ Len(trace[r]) = 1
  THEN /\ trace' = [trace EXCEPT ![r] =
                      Append(Append(@, Event("send_return", JNull, JStr(<<>>))),
                             Event("completion_call", JNull, text[r]))]
       /\ pc' = [pc EXCEPT ![r] = "openai"]
       /\ UNCHANGED <<result, caught>>
  ELSE /\ trace' = [trace EXCEPT ![r] =
                      Append(@, Event("send_return", JNull, JStr(<<>>)))]
       /\ ReturnOk(r)

\* send_telegram_message returns and webhook returns after it
AfterSend(r) ==
  /\ trace' = [trace EXCEPT ![r] =
                 Append(@, Event("send_return", JNull, JStr(<<>>)))]
  /\ ReturnOk(r)

\* the runtime accepts a POST /webhook and starts the handler
Accept(r) ==
  /\ pc[r] = "idle"
  /\ \E i \in 1..Len(Bodies) : body' = [body EXCEPT ![r] = Bodies[i]]
  /\ pc' = [pc EXCEPT ![r] = "json"]
  /\ UNCHANGED <<data, chat_id, text, api, tg_response, trace, result,
                 caught, delivered>>

\* data = await request.json()
ParseBody(r) ==
  /\ pc[r] = "json"
  /\ IF body[r].valid
     THEN /\ data' = [data EXCEPT ![r] = body[r].json]
          /\ pc' = [pc EXCEPT ![r] = "classify"]
          /\ UNCHANGED <<result, caught>>
     ELSE /\ Catch(r, Exc("JSONDecodeError", <<"Expecting value">>))
          /\ UNCHANGED data
  /\ UNCHANGED <<body, chat_id, text, api, tg_response, trace, delivered>>

\* from the `"message" not in data` test to the first outbound call
Classify(r) ==
  /\ pc[r] = "classify"
  /\ LET has == Contains(data[r])
         message == GetItem(data[r], MESSAGE_KEY)
         chat == GetItem(message.val, "chat")
         id == GetItem(chat.val, "id")
         txt == DictGet(message.val, "text", JStr(<<>>))
         failed == IF has.raised THEN has
                   ELSE IF message.raised THEN message
                   ELSE IF chat.raised THEN chat
                   ELSE id
     IN  IF ~has.raised /\ ~has.val.v
         THEN ReturnOk(r) /\ UNCHANGED <<chat_id, text, trace>>
         ELSE IF failed.raised
         THEN Catch(r, failed.exc) /\ UNCHANGED <<chat_id, text, trace>>
         ELSE /\ chat_id' = [chat_id EXCEPT ![r] = id.val]
              /\ text' = [text EXCEPT ![r] = txt]
              /\ IF IsStart(txt) THEN StartSend(r, id.val, welcome_message)
                 ELSE IF IsEmpty(txt) THEN StartSend(r, id.val, PROMPT)
                 ELSE /\ trace' = [trace EXCEPT ![r] =
                                     Append(@, Event("completion_call", JNull, txt))]
                      /\ pc' = [pc EXCEPT ![r] = "openai"]
                      /\ UNCHANGED <<result, caught>>
  /\ UNCHANGED <<body, data, api, tg_response, delivered>>

\* ai_response = await get_openai_response(text), then the send of it starts
Completion(r) ==
  /\ pc[r] = "openai"
  /\ \E i \in 1..Len(ApiOutcomes) :
       LET ai_response == get_openai_response(text[r], ApiOutcomes[i])
       IN  /\ api' = [api EXCEPT ![r] = ApiOutcomes[i]]
           /\ IF ai_response.raised
              THEN Catch(r, ai_response.exc) /\ UNCHANGED trace
              ELSE /\ trace' = [trace EXCEPT ![r] =
                                  Append(Append(@, Event("completion_return",
                                                         JNull, ai_response.val)),
                                         SendCall(r, chat_id[r],
                                                  ai_response.val.v))]
                   /\ pc' = [pc EXCEPT ![r] = "post"]
                   /\ UNCHANGED <<result, caught>>
  /\ UNCHANGED <<body, data, chat_id, text, tg_response, delivered>>

\* the rest of send_telegram_message once client.post has ended:
\* response.raise_for_status(); return response.json(); back in webhook
Status(r, resp) ==
  LET e == IF RaisesForStatus(resp)
           THEN Exc("HTTPStatusError", <<"Client error '400 Bad Request'">>)
           ELSE Exc("JSONDecodeError", <<"Expecting value">>)
  IN  IF RaisesForStatus(resp) \/ ~resp.is_json
      THEN /\ trace' = [trace EXCEPT ![r] =
                          Append(@, Event("send_raise", JNull,
                                          JStr(ExcStr(e))))]
           /\ Catch(r, e)
      ELSE AfterSend(r)

\* response = await client.post(url, json=payload) ends, and the handler runs
\* on to its response
Post(r) ==
  /\ pc[r] = "post"
  /\ \E i \in 1..Len(PostOutcomes) :
       LET o == PostOutcomes[i]
           payload == Last(trace[r])
       IN  IF o.raised
           THEN /\ trace' = [trace EXCEPT ![r] =
                               Append(@, Event("send_raise", JNull,
                                               JStr(ExcStr(o.exc))))]
                /\ Catch(r, o.exc)
                /\ UNCHANGED <<tg_response, delivered>>
           ELSE /\ tg_response' = [tg_response EXCEPT ![r] = o.val]
                /\ delivered' =
                     [delivered EXCEPT ![r] =
                        IF 200 <= o.val.status_code /\ o.val.status_code < 300
                        THEN Append(@, [chat_id |-> payload.chat,
                                        text |-> payload.text])
                        ELSE @]
                /\ Status(r, o.val)
  /\ UNCHANGED <<body, data, chat_id, text, api>>

Next ==
  \E r \in Req :
    \/ Accept(r)
    \/ ParseBody(r)
    \/ Classify(r)
    \/ Completion(r)
    \/ Post(r)

Spec == Init /\ [][Next]_vars

\* Every outbound call returns or raises (the clients time out), and the
\* runtime resumes a coroutine whose awaited call has ended.
Handle(r) ==
  ParseBody(r) \/ Classify(r) \/ Completion(r) \/ Post(r)

FairSpec == Spec /\ \A r \in Req : WF_vars(Handle(r))

NextConc ==
  \E r \in ConcReq :
    \/ Accept(r)
    \/ ParseBody(r)
    \/ Classify(r)
    \/ Completion(r)
    \/ Post(r)

ConcSpec == Init /\ [][NextConc]_vars


(* ------------------------- reading the requests ------------------------ *)
SameValue(a, b) == a.t = b.t /\ a.v = b.v
SameEvent(e, f) ==
  e.ev = f.ev /\ SameValue(e.chat, f.chat) /\ SameValue(e.text, f.text)

\* the events of request r's trace named ev
TraceOf(r, ev) == SelectSeq(trace[r], LAMBDA e : e.ev = ev)

\* the body is a JSON object with a "message" field
HasMessage(b) ==
  b.valid /\ b.json.t = "obj" /\ MESSAGE_KEY \in DOMAIN b.json.v
MessageOf(b) == b.json.v[MESSAGE_KEY]
\* the update is {"message": {"chat": {"id": ...}, ...}}
HasChatId(b) ==
  /\ HasMessage(b)
  /\ MessageOf(b).t = "obj"
  /\ "chat" \in DOMAIN MessageOf(b).v
  /\ MessageOf(b).v["chat"].t = "obj"
  /\ "id" \in DOMAIN MessageOf(b).v["chat"].v
ChatIdOf(b) == MessageOf(b).v["chat"].v["id"]
HasText(b) == "text" \in DOMAIN MessageOf(b).v
TextOf(b) == MessageOf(b).v["text"]

\* an update with a chat id whose text is a non-empty string other than /start
NormalText(b) ==
  /\ HasChatId(b) /\ HasText(b)
  /\ TextOf(b).t = "str" /\ TextOf(b).v # <<>> /\ TextOf(b).v # START
\* an update with a chat id whose text is exactly /start
GreetingText(b) ==
  HasChatId(b) /\ HasText(b) /\ TextOf(b).t = "str" /\ TextOf(b).v = START
\* an update with a chat id and no text key, a null text or the empty string
NoText(b) ==
  /\ HasChatId(b)
  /\ \/ ~HasText(b)
     \/ TextOf(b).t = "null"
     \/ TextOf(b).t = "str" /\ TextOf(b).v = <<>>

Classified == {"openai", "post", "done"}
IsOkAnswer(a) ==
  /\ a.status_code = HTTP_OK
  /\ a.content.t = "obj"
  /\ DOMAIN a.content.v = {"ok"}
  /\ SameValue(a.content.v["ok"], JBool(TRUE))
IsErrorAnswer(a) ==
  /\ a.status_code = HTTP_ERROR
  /\ a.content.t = "obj"
  /\ DOMAIN a.content.v = {"ok", "error"}
  /\ SameValue(a.content.v["ok"], JBool(FALSE))
  /\ a.content.v["error"].t = "str"

(* -------------------------------- claims ------------------------------- *)

\* C1: for an update with a chat id and a non-empty text other than "/start",
\* the handler makes exactly one completion call, with exactly that text, and
\* then exactly one send call, to the update's chat id, whose text is the
\* string the completion client returned; the completion call has returned
\* before the send call starts.
C1_CompletionThenSend ==
  \A r \in AllReq :
    NormalText(body[r]) /\ pc[r] \in Classified =>
      LET t == trace[r]
      IN  /\ Len(t) >= 1
          /\ SameEvent(t[1], Event("completion_call", JNull, TextOf(body[r])))
          /\ Len(TraceOf(r, "completion_call")) = 1
          /\ pc[r] = "openai" => Len(t) = 1
          /\ pc[r] # "openai" =>
               /\ Len(t) >= 3
               /\ t[2].ev = "completion_return"
               /\ SameEvent(t[3], Event("send_call", ChatIdOf(body[r]),
                                        t[2].text))
               /\ Len(TraceOf(r, "completion_return")) = 1
               /\ Len(TraceOf(r, "send_call")) = 1

\* C1 witness: a "/start " text got the stripped completion "yo" as its reply.
C1_Witness ==
  \E r \in AllReq :
    /\ NormalText(body[r]) /\ pc[r] = "done"
    /\ StartsWith(TextOf(body[r]).v, START)
    /\ Len(trace[r]) = 4
    /\ SameValue(trace[r][2].text, JStr(<<"y", "o">>))
    /\ Len(delivered[r]) = 1
    /\ SameValue(delivered[r][1].text, JStr(<<"y", "o">>))

\* C2: for a JSON body without a message field the handler answers exactly
\* {"ok": true} with a success status and makes no outbound call.
C2_NoMessageIsNoOp ==
  \A r \in AllReq :
    pc[r] = "done" /\ body[r].valid /\ ~HasMessage(body[r]) =>
      /\ Len(result[r]) = 1 /\ IsOkAnswer(result[r][1])
      /\ trace[r] = <<>>

\* C3: when the completion call raises or its response is malformed, the
\* completion client returns a string that begins with the error prefix and
\* the handler sends that string; the exception does not reach the handler.
C3_CompletionErrorIsSent ==
  \A r \in AllReq :
    /\ pc[r] = "done" /\ TraceOf(r, "completion_call") # <<>>
    /\ (api[r].raised \/ api[r].val.t # "str")
    => /\ Len(trace[r]) >= 3
       /\ trace[r][2].ev = "completion_return"
       /\ trace[r][2].text.t = "str"
       /\ StartsWith(trace[r][2].text.v, ERROR_PREFIX)
       /\ trace[r][3].ev = "send_call"
       /\ SameValue(trace[r][3].text, trace[r][2].text)
       /\ caught[r].type \notin {"APIConnectionError", "AttributeError"}

\* C3 witness: the API raised, the error string was delivered to the chat and
\* the handler answered ok.
C3_Witness ==
  \E r \in AllReq :
    /\ pc[r] = "done" /\ api[r].raised
    /\ Len(delivered[r]) = 1
    /\ StartsWith(delivered[r][1].text.v, ERROR_PREFIX)
    /\ Len(delivered[r][1].text.v) > Len(ERROR_PREFIX)
    /\ IsOkAnswer(result[r][1])

\* C4: when the send call raises, on any reply path, the handler answers
\* HTTP 500 with "ok": false and the exception's message as the error, and
\* the send is not retried.
C4_SendFailureIs500 ==
  \A r \in AllReq :
    pc[r] = "done" /\ trace[r] # <<>> /\ Last(trace[r]).ev = "send_raise" =>
      /\ Len(result[r]) = 1
      /\ IsErrorAnswer(result[r][1])
      /\ SameValue(result[r][1].content.v["error"], Last(trace[r]).text)
      /\ Len(TraceOf(r, "send_call")) = 1

\* C4 witness: the send of a completion result raised on a 400 status and the
\* handler answered 500 with that message.
C4_Witness ==
  \E r \in AllReq :
    /\ pc[r] = "done" /\ NormalText(body[r])
    /\ Last(trace[r]).ev = "send_raise"
    /\ caught[r].type = "HTTPStatusError"
    /\ IsErrorAnswer(result[r][1])

\* C5: at most one send call is issued per inbound update, on every path.
C5_AtMostOneSend == \A r \in AllReq : Len(TraceOf(r, "send_call")) <= 1

\* C5 witness: a request that ended in the top-level catch after its one send.
C5_Witness ==
  \E r \in AllReq :
    /\ pc[r] = "done" /\ caught[r] # NoExc
    /\ Len(TraceOf(r, "send_call")) = 1


\* C6 as stated: for a text exactly "/start" the welcome string is sent in one
\* send call to the update's chat id, the completion API is never called, and
\* the handler answers {"ok": true}.
C6_GreetingAlwaysOk ==
  \A r \in AllReq :
    GreetingText(body[r]) /\ pc[r] = "done" =>
      /\ Len(TraceOf(r, "send_call")) = 1
      /\ SameEvent(trace[r][1], Event("send_call", ChatIdOf(body[r]),
                                      JStr(welcome_message)))
      /\ TraceOf(r, "completion_call") = <<>>
      /\ Len(result[r]) = 1 /\ IsOkAnswer(result[r][1])

\* C6 amended: for a text exactly "/start" the welcome string is sent in one
\* send call to the update's chat id and the completion API is never called;
\* the handler answers {"ok": true} when that send call returns and 500 when
\* it raises.
C6_Greeting ==
  \A r \in AllReq :
    GreetingText(body[r]) /\ pc[r] \in Classified =>
      /\ Len(TraceOf(r, "send_call")) = 1
      /\ SameEvent(trace[r][1], Event("send_call", ChatIdOf(body[r]),
                                      JStr(welcome_message)))
      /\ TraceOf(r, "completion_call") = <<>>
      /\ pc[r] = "done" =>
           /\ Len(trace[r]) = 2 /\ Len(result[r]) = 1
           /\ trace[r][2].ev = "send_return" => IsOkAnswer(result[r][1])
           /\ trace[r][2].ev = "send_raise" => IsErrorAnswer(result[r][1])

\* C6 witness: the spec's example, chat 42 got the welcome and the handler
\* answered ok.
C6_Witness ==
  \E r \in AllReq :
    /\ GreetingText(body[r]) /\ pc[r] = "done"
    /\ SameValue(ChatIdOf(body[r]), JNum(42))
    /\ delivered[r] = <<[chat_id |-> JNum(42), text |-> JStr(welcome_message)]>>
    /\ IsOkAnswer(result[r][1])

\* C7: for an update with no text key, a null text or an empty text, the
\* prompt string is sent in one send call to the update's chat id and the
\* completion API is never called.
C7_NoTextGetsPrompt ==
  \A r \in AllReq :
    NoText(body[r]) /\ pc[r] \in Classified =>
      /\ Len(TraceOf(r, "send_call")) = 1
      /\ SameEvent(trace[r][1], Event("send_call", ChatIdOf(body[r]),
                                      JStr(PROMPT)))
      /\ TraceOf(r, "completion_call") = <<>>
      /\ api[r] = NotCalled

\* C7 witness: an update with a null text got the prompt in its chat.
C7_Witness ==
  \E r \in AllReq :
    /\ pc[r] = "done"
    /\ HasChatId(body[r]) /\ HasText(body[r]) /\ TextOf(body[r]).t = "null"
    /\ delivered[r] = <<[chat_id |-> ChatIdOf(body[r]), text |-> JStr(PROMPT)]>>

\* C8: every accepted request eventually ends, with exactly one response,
\* which is {"ok": true} with a success status or {"ok": false, "error": str}
\* with status 500, whatever step failed.
C8_AlwaysAnswered ==
  /\ [](\A r \in AllReq :
          /\ pc[r] # "done" => result[r] = <<>>
          /\ pc[r] = "done" =>
               /\ Len(result[r]) = 1
               /\ IsOkAnswer(result[r][1]) \/ IsErrorAnswer(result[r][1])
               /\ IsErrorAnswer(result[r][1]) <=> caught[r] # NoExc)
  /\ \A r \in AllReq : (pc[r] = "json") ~> (pc[r] = "done")

\* C8 witness: a request that failed at chat-id extraction was answered with
\* the JSON 500 carrying the KeyError's message.
C8_Witness ==
  \E r \in AllReq :
    /\ pc[r] = "done"
    /\ HasMessage(body[r]) /\ caught[r].type = "KeyError"
    /\ Len(result[r]) = 1 /\ IsErrorAnswer(result[r][1])
    /\ SameValue(result[r][1].content.v["error"], JStr(<<"'", "chat", "'">>))

\* C9 as stated: a message update gets a reply except when a failure occurs
\* after classification, before or during the send; only then is there no
\* reply and a 500.  So a 500 implies no reply was delivered, and no reply
\* implies the failure was at the send step.
C9_SilenceOnlyAtSend ==
  \A r \in AllReq :
    pc[r] = "done" /\ HasMessage(body[r]) =>
      /\ delivered[r] = <<>> =>
           /\ IsErrorAnswer(result[r][1])
           /\ trace[r] # <<>> /\ Last(trace[r]).ev = "send_raise"
      /\ IsErrorAnswer(result[r][1]) => delivered[r] = <<>>

\* C9 amended: a message update gets no reply only when chat-id extraction
\* fails (before classification) or the send call raises, and then the handler
\* answers 500; without a failure the reply is delivered.  A 500 comes with a
\* delivered reply only when the send call raised after a success status.
C9_Silence ==
  \A r \in AllReq :
    pc[r] = "done" /\ HasMessage(body[r]) =>
      /\ Len(delivered[r]) <= 1
      /\ delivered[r] = <<>> =>
           /\ IsErrorAnswer(result[r][1])
           /\ \/ trace[r] = <<>> /\ ~HasChatId(body[r])
              \/ trace[r] # <<>> /\ Last(trace[r]).ev = "send_raise"
      /\ IsOkAnswer(result[r][1]) => Len(delivered[r]) = 1
      /\ IsErrorAnswer(result[r][1]) /\ delivered[r] # <<>> =>
           /\ Last(trace[r]).ev = "send_raise"
           /\ ~RaisesForStatus(tg_response[r]) /\ ~tg_response[r].is_json

\* C9 witness: a message update without a chat got no reply and a 500, with
\* no send attempted.
C9_Witness ==
  \E r \in AllReq :
    /\ pc[r] = "done"
    /\ HasMessage(body[r]) /\ ~HasChatId(body[r])
    /\ trace[r] = <<>> /\ delivered[r] = <<>>
    /\ IsErrorAnswer(result[r][1])

\* C10: however concurrent requests interleave, the send call of each carries
\* the chat id of its own update and a text determined by its own update's
\* text and its own completion result, and its response is determined by
\* its own body and its own send.
C10_Independent ==
  \A r \in AllReq :
    /\ \A i \in 1..Len(trace[r]) :
         trace[r][i].ev = "send_call" =>
           /\ HasChatId(body[r])
           /\ SameValue(trace[r][i].chat, ChatIdOf(body[r]))
           /\ GreetingText(body[r]) =>
                SameValue(trace[r][i].text, JStr(welcome_message))
           /\ NoText(body[r]) => SameValue(trace[r][i].text, JStr(PROMPT))
           /\ NormalText(body[r]) =>
                /\ i > 1 /\ trace[r][i - 1].ev = "completion_return"
                /\ SameValue(trace[r][i].text, trace[r][i - 1].text)
    /\ \A i \in 1..Len(delivered[r]) :
         SameValue(delivered[r][i].chat_id, ChatIdOf(body[r]))
    /\ pc[r] = "done" =>
         /\ Len(result[r]) = 1
         /\ IsOkAnswer(result[r][1]) <=>
              \/ trace[r] # <<>> /\ Last(trace[r]).ev = "send_return"
              \/ /\ trace[r] = <<>> /\ body[r].valid
                 /\ ~Contains(body[r].json).raised
                 /\ ~Contains(body[r].json).val.v
         /\ ~IsOkAnswer(result[r][1]) => IsErrorAnswer(result[r][1])

\* C10 witness: two requests for different chats are suspended in their send
\* calls at the same time, each with its own chat id in its payload.
C10_Witness ==
  \E r, q \in AllReq :
    /\ pc[r] = "post" /\ pc[q] = "post"
    /\ SameValue(Last(trace[r]).chat, JNum(7))
    /\ SameValue(Last(trace[q]).chat, JNum(42))
    /\ NormalText(body[r]) /\ NormalText(body[q])

=============================================================================
